---- MODULE Spec2Model ----
(***************************************************************************)
(* ABIExtractor (src/main.py): recovery of ABI descriptors from a dApp's   *)
(* bundled JavaScript and matching of each descriptor against the active   *)
(* smart-contract addresses found in the same bundle.                      *)
(*                                                                         *)
(* Texts are sequences of one-character strings.  The matching engine      *)
(* (find_matching_contracts) is a state machine with one step per parse,   *)
(* per gateway query, per sample draw and per accept/reject decision.  The *)
(* text functions are operators applied by one action each.                *)
(***************************************************************************)
EXTENDS Integers, Sequences, FiniteSets, TLC

VARIABLES
    \* ---- find_matching_contracts ----
    abi_jsons,          \* the descriptors handed to the engine, in list order
    sc_addresses,       \* the active addresses, in list order
    gateway,            \* the remote vm-values/query service
    pc,                 \* position in find_matching_contracts
    abi_idx,            \* index of the descriptor of the outer for loop
    addr_idx,           \* index of the address of the inner for loop
    function_names,     \* endpoint names of the current descriptor
    random_functions,   \* endpoint names of the current confirmation round
    probe_idx,          \* index of the next confirmation probe
    match_count,        \* main.py:362
    relationship_dict,  \* address -> exported path
    files,              \* the export directory: path -> descriptor written
    relationship_file,  \* the contents written to relationship.json, in order
    \* ---- history of the run (not program state) ----
    acceptedPairs,      \* <<descriptor index, address>> recorded at main.py:370
    lastAccepted,       \* address -> index of the descriptor last accepted
    probedPairs,        \* <<descriptor index, address>> whose first probe was issued
    raised,             \* indices of the descriptors whose processing raised
    lastPair,           \* what happened to the pair processed most recently
    \* ---- a second run over the same inputs ----
    run,                \* 1 or 2
    nextGateway,        \* the gateway of the second run
    prevAccepted,       \* acceptedPairs of the first run
    \* ---- process_js_url and the text functions ----
    js_code,            \* the text being processed
    text_pc,            \* position in process_js_url / whether the function ran
    buildinfo_occurrences,
    occ_idx,
    abi_list,           \* abi_jsons of process_js_url
    result              \* return value of the text function under test

engineVars == <<abi_jsons, sc_addresses, gateway, pc, abi_idx, addr_idx,
                function_names, random_functions, probe_idx, match_count,
                relationship_dict, files, relationship_file,
                acceptedPairs, lastAccepted, probedPairs, raised, lastPair>>
runVars == <<run, nextGateway, prevAccepted>>
textVars == <<js_code, text_pc, buildinfo_occurrences, occ_idx, abi_list, result>>
vars == <<engineVars, runVars, textVars>>

(***************************************************************************)
(* Bounds of the model.                                                    *)
(***************************************************************************)
MaxDescriptors == 2     \* length of abi_jsons
MaxEndpoints == 7       \* endpoints per descriptor
PairEndpoints == 2      \* endpoints per descriptor when two runs are compared
BatchEndpoints == 2     \* endpoints per descriptor in the batches of InitBatch
MaxTokens == 5          \* tokens of a text handed to process_js_url
MaxStrLen == 2          \* characters of a key or string value of a JSON text
MaxAddrTokens == 4      \* tokens of a text handed to extract_addresses
MaxDocsTokens == 4      \* tokens of a text handed to repair_broken_json

NUMBER_OF_MATCHES == 5

(***************************************************************************)
(* Generic sequence helpers.                                               *)
(***************************************************************************)
Min(a, b) == IF a <= b THEN a ELSE b

RECURSIVE SeqOfSet(_)
SeqOfSet(S) ==
    IF S = {} THEN <<>>
    ELSE LET m == CHOOSE x \in S : \A y \in S : x <= y
         IN  <<m>> \o SeqOfSet(S \ {m})

Range(s) == {s[j] : j \in 1..Len(s)}

\* Python's s[k:] for a 0-based k
Slice(s, k) == SubSeq(s, k + 1, Len(s))

(***************************************************************************)
(* Inputs of find_matching_contracts.                                      *)
(*                                                                         *)
(* A descriptor string either fails both parse attempts (main.py:347-350), *)
(* or parses to an object without usable "endpoints" (main.py:351), or     *)
(* parses to an object with n endpoints named 1..n and possibly a "name".  *)
(***************************************************************************)
Name_a_b == <<"a", " ", "b">>
Name_a_u_b == <<"a", "_", "b">>
DescriptorNames == {Name_a_b, Name_a_u_b}

Descriptors ==
    {[kind |-> "unparseable", n |-> 0, hasName |-> FALSE, name |-> <<>>],
     [kind |-> "no_endpoints", n |-> 0, hasName |-> FALSE, name |-> <<>>]}
    \cup [kind : {"abi"}, n : 0..MaxEndpoints, hasName : {FALSE}, name : {<<>>}]
    \cup [kind : {"abi"}, n : 0..MaxEndpoints, hasName : {TRUE}, name : DescriptorNames]

\* process_js_url hands over list(set(abi_jsons)): the strings are distinct
DescriptorLists ==
    {l \in UNION {[1..m -> Descriptors] : m \in 0..MaxDescriptors} :
        \A j, k \in 1..Len(l) : j # k => l[j] # l[k]}

Addresses == <<"erd1qqqqqqqqqA", "erd1qqqqqqqqqB">>

(***************************************************************************)
(* query_function (main.py:270-289): the gateway answers a query with a    *)
(* return code, or the call raises (network error, or a response without   *)
(* data.data.returnCode, which raises at main.py:357 / 364).               *)
(***************************************************************************)
Rejections == {"function not found", "contract not found"}
ReturnCodes == {"ok", "user error"} \cup Rejections
QueryRaises == "exception"
Outcomes == ReturnCodes \cup {QueryRaises}

LiveGateway == [mode |-> "live", table |-> <<>>]

query_function(sc_address, func_name) ==
    IF gateway.mode = "live" THEN Outcomes
    ELSE {gateway.table[<<sc_address, func_name>>]}

(***************************************************************************)
(* export_abi_json (main.py:32-55)                                         *)
(***************************************************************************)
ReplaceChar(s, from, to) == [j \in 1..Len(s) |-> IF s[j] = from THEN to ELSE s[j]]

ExportPath(name_field) ==
    <<"exports/"  >> \o ReplaceChar(name_field, " ", "_") \o <<".json">>

WriteFile(fs, path, content) ==
    [p \in DOMAIN fs \cup {path} |-> IF p = path THEN content ELSE fs[p]]

(***************************************************************************)
(* random.sample and the choice of the confirmation round                  *)
(* (main.py:360-361).  random.sample raises ValueError when the sample is  *)
(* larger than the population.  The order of the sample does not influence *)
(* the round (every name is probed): it is kept in list order.             *)
(***************************************************************************)
UsesSample(names) == Len(names) > NUMBER_OF_MATCHES - 1

SampleRaises(population, k) == k > Len(population)

Samples(population, k) ==
    {[j \in 1..k |-> population[SeqOfSet(S)[j]]] :
        S \in {T \in SUBSET (1..Len(population)) : Cardinality(T) = k}}

ConfirmationRaises(names) ==
    UsesSample(names) /\ SampleRaises(Slice(names, 1), NUMBER_OF_MATCHES)

ConfirmationRounds(names) ==
    IF UsesSample(names) THEN Samples(Slice(names, 1), NUMBER_OF_MATCHES)
    ELSE {Slice(names, 1)}

(***************************************************************************)
(* find_matching_contracts (main.py:327-375)                               *)
(***************************************************************************)
CurrentDescriptor == abi_jsons[abi_idx]
CurrentAddress == sc_addresses[addr_idx]

NoPair == [abi |-> 0, addr |-> "", first |-> "none", sample |-> "none", probes |-> 0,
           rejections |-> 0, failed |-> FALSE, recorded |-> FALSE, closed |-> FALSE]

\* the head of the outer for loop (main.py:343): the next descriptor, or past the loop
LoopHead(j) == IF j > Len(abi_jsons) THEN "export" ELSE "parse"

\* what no step of the engine changes
Frame == UNCHANGED <<abi_jsons, sc_addresses, gateway, runVars, textVars>>

\* the try statement around the loop instead of inside it: the first exception ends
\* the batch
HandleException_EndsBatch ==
    /\ abi_idx' = abi_idx
    /\ pc' = "done"
    /\ raised' = raised \cup {abi_idx}
    /\ UNCHANGED <<relationship_dict, files, relationship_file, acceptedPairs, lastAccepted>>

\* except Exception: pass (main.py:372-373): the rest of the current descriptor is
\* skipped and the outer loop goes on with the next one
HandleException ==
    /\ abi_idx' = abi_idx + 1
    /\ pc' = LoopHead(abi_idx + 1)
    /\ raised' = raised \cup {abi_idx}
    /\ UNCHANGED <<relationship_dict, files, relationship_file, acceptedPairs, lastAccepted>>

\* main.py:344-354: parse the descriptor, list its endpoint names, take the first
ParseRaises(d) == d.kind # "abi" \/ d.n = 0

ParseDescriptor ==
    /\ pc = "parse"
    /\ IF ParseRaises(CurrentDescriptor)
       THEN /\ HandleException
            /\ UNCHANGED <<function_names, addr_idx>>
       ELSE /\ function_names' = [j \in 1..CurrentDescriptor.n |-> j]
            /\ addr_idx' = 1
            /\ pc' = "first"
            /\ UNCHANGED <<abi_idx, raised, relationship_dict, files, relationship_file,
                           acceptedPairs, lastAccepted>>
    /\ UNCHANGED <<random_functions, probe_idx, match_count, probedPairs, lastPair>>
    /\ Frame

\* main.py:355-358: the first-endpoint probe of the next address
ProbeFirst ==
    /\ pc = "first"
    /\ IF addr_idx > Len(sc_addresses)
       THEN /\ abi_idx' = abi_idx + 1
            /\ pc' = LoopHead(abi_idx + 1)
            /\ UNCHANGED <<addr_idx, raised, probedPairs, lastPair, relationship_dict, files,
                           relationship_file, acceptedPairs, lastAccepted>>
       ELSE \E return_code \in query_function(CurrentAddress, function_names[1]) :
            /\ probedPairs' = probedPairs \cup {<<abi_idx, CurrentAddress>>}
            /\ IF return_code = QueryRaises
               THEN /\ HandleException
                    /\ lastPair' = [NoPair EXCEPT !.abi = abi_idx, !.addr = CurrentAddress,
                                                  !.first = "raised", !.closed = TRUE]
                    /\ UNCHANGED addr_idx
               ELSE /\ IF return_code \in Rejections
                       THEN /\ addr_idx' = addr_idx + 1
                            /\ pc' = "first"
                            /\ lastPair' = [NoPair EXCEPT !.abi = abi_idx,
                                               !.addr = CurrentAddress,
                                               !.first = "rejected", !.closed = TRUE]
                       ELSE /\ addr_idx' = addr_idx
                            /\ pc' = "sample"
                            /\ lastPair' = [NoPair EXCEPT !.abi = abi_idx,
                                               !.addr = CurrentAddress,
                                               !.first = "passed", !.sample = "pending"]
                    /\ UNCHANGED <<abi_idx, raised, relationship_dict, files,
                                   relationship_file, acceptedPairs, lastAccepted>>
    /\ UNCHANGED <<function_names, random_functions, probe_idx, match_count>>
    /\ Frame

\* main.py:360-362: choose the endpoint names of the confirmation round
DrawSample ==
    /\ pc = "sample"
    /\ IF ConfirmationRaises(function_names)
       THEN /\ HandleException
            /\ lastPair' = [lastPair EXCEPT !.sample = "raised", !.closed = TRUE]
            /\ UNCHANGED <<random_functions, probe_idx, match_count>>
       ELSE /\ \E round \in ConfirmationRounds(function_names) :
                /\ random_functions' = round
                /\ pc' = IF Len(round) = 0 THEN "decide" ELSE "confirm"
            /\ match_count' = 0
            /\ probe_idx' = 1
            /\ lastPair' = [lastPair EXCEPT !.sample = "drawn"]
            /\ UNCHANGED <<abi_idx, raised, relationship_dict, files, relationship_file,
                           acceptedPairs, lastAccepted>>
    /\ UNCHANGED <<function_names, addr_idx, probedPairs>>
    /\ Frame

\* main.py:363-365: one probe of the confirmation round
ProbeConfirm ==
    /\ pc = "confirm"
    /\ \E return_code \in query_function(CurrentAddress, random_functions[probe_idx]) :
        IF return_code = QueryRaises
        THEN /\ HandleException
             /\ lastPair' = [lastPair EXCEPT !.probes = @ + 1, !.failed = TRUE,
                                             !.closed = TRUE]
             /\ UNCHANGED <<probe_idx, match_count>>
        ELSE /\ match_count' = IF return_code \notin Rejections
                               THEN match_count + 1 ELSE match_count
             /\ probe_idx' = probe_idx + 1
             /\ pc' = IF probe_idx + 1 > Len(random_functions) THEN "decide" ELSE "confirm"
             /\ lastPair' = [lastPair EXCEPT !.probes = @ + 1,
                                !.rejections = IF return_code \in Rejections
                                               THEN @ + 1 ELSE @]
             /\ UNCHANGED <<abi_idx, raised, relationship_dict, files, relationship_file,
                            acceptedPairs, lastAccepted>>
    /\ UNCHANGED <<function_names, random_functions, addr_idx, probedPairs>>
    /\ Frame

\* main.py:366: the round is unanimous
Unanimous(count, round) == count = Len(round)

\* main.py:366-371: accept or reject the pair, then go on with the next address
Decide ==
    /\ pc = "decide"
    /\ IF Unanimous(match_count, random_functions)
       THEN IF ~CurrentDescriptor.hasName
            THEN /\ HandleException
                 /\ lastPair' = [lastPair EXCEPT !.closed = TRUE]
                 /\ UNCHANGED addr_idx
            ELSE LET abi_json_path == ExportPath(CurrentDescriptor.name)
                 IN  /\ files' = WriteFile(files, abi_json_path, CurrentDescriptor)
                     /\ relationship_dict' =
                            WriteFile(relationship_dict, CurrentAddress, abi_json_path)
                     /\ acceptedPairs' = acceptedPairs \cup {<<abi_idx, CurrentAddress>>}
                     /\ lastAccepted' = WriteFile(lastAccepted, CurrentAddress, abi_idx)
                     /\ lastPair' = [lastPair EXCEPT !.recorded = TRUE, !.closed = TRUE]
                     /\ addr_idx' = addr_idx + 1
                     /\ pc' = "first"
                     /\ UNCHANGED <<abi_idx, raised, relationship_file>>
       ELSE /\ lastPair' = [lastPair EXCEPT !.closed = TRUE]
            /\ addr_idx' = addr_idx + 1
            /\ pc' = "first"
            /\ UNCHANGED <<abi_idx, raised, relationship_dict, files, relationship_file,
                           acceptedPairs, lastAccepted>>
    /\ UNCHANGED <<function_names, random_functions, probe_idx, match_count, probedPairs>>
    /\ Frame

\* main.py:374-375 and export_relationship_dict (main.py:59-77)
ExportRelationship ==
    /\ pc = "export"
    /\ relationship_file' = Append(relationship_file, relationship_dict)
    /\ pc' = "done"
    /\ UNCHANGED <<abi_idx, addr_idx, function_names, random_functions, probe_idx,
                   match_count, relationship_dict, files, acceptedPairs, lastAccepted,
                   probedPairs, raised, lastPair>>
    /\ Frame

\* the state in which find_matching_contracts starts (main.py:339-343)
EngineStart ==
    /\ pc = LoopHead(1)
    /\ abi_idx = 1
    /\ addr_idx = 1
    /\ function_names = <<>>
    /\ random_functions = <<>>
    /\ probe_idx = 1
    /\ match_count = 0
    /\ relationship_dict = <<>>
    /\ files = <<>>
    /\ relationship_file = <<>>
    /\ acceptedPairs = {}
    /\ lastAccepted = <<>>
    /\ probedPairs = {}
    /\ raised = {}
    /\ lastPair = NoPair

OneRun == run = 1 /\ nextGateway = LiveGateway /\ prevAccepted = {}

NoText ==
    /\ js_code = <<>>
    /\ text_pc = "idle"
    /\ buildinfo_occurrences = <<>>
    /\ occ_idx = 1
    /\ abi_list = <<>>
    /\ result = <<>>

Init ==
    /\ abi_jsons \in DescriptorLists
    /\ sc_addresses = Addresses
    /\ gateway = LiveGateway
    /\ EngineStart
    /\ OneRun
    /\ NoText

Next ==
    \/ ParseDescriptor
    \/ ProbeFirst
    \/ DrawSample
    \/ ProbeConfirm
    \/ Decide
    \/ ExportRelationship

Spec == Init /\ [][Next]_vars

(***************************************************************************)
(* Batches of short descriptors: every way a descriptor can raise          *)
(* (unparseable, no endpoints, zero endpoints, a failing probe, a sample   *)
(* larger than the population, no name) next to descriptors that match.    *)
(***************************************************************************)
BatchDescriptors ==
    {[kind |-> "unparseable", n |-> 0, hasName |-> FALSE, name |-> <<>>],
     [kind |-> "no_endpoints", n |-> 0, hasName |-> FALSE, name |-> <<>>],
     [kind |-> "abi", n |-> NUMBER_OF_MATCHES, hasName |-> TRUE, name |-> Name_a_b]}
    \cup [kind : {"abi"}, n : 0..BatchEndpoints, hasName : {FALSE}, name : {<<>>}]
    \cup [kind : {"abi"}, n : 0..BatchEndpoints, hasName : {TRUE}, name : {Name_a_b}]

BatchLists ==
    {l \in UNION {[1..m -> BatchDescriptors] : m \in 0..MaxDescriptors} :
        \A j, k \in 1..Len(l) : j # k => l[j] # l[k]}

InitBatch ==
    /\ abi_jsons \in BatchLists
    /\ sc_addresses = Addresses
    /\ gateway = LiveGateway
    /\ EngineStart
    /\ OneRun
    /\ NoText

SpecBatch == InitBatch /\ [][Next]_vars

(***************************************************************************)
(* Two runs of find_matching_contracts over the same descriptors and       *)
(* addresses, against gateways that answer from fixed tables differing in  *)
(* the answer to one query.                                                *)
(***************************************************************************)
PairDescriptors ==
    [kind : {"abi"}, n : 1..PairEndpoints, hasName : {TRUE}, name : {Name_a_b}]

PairDescriptorLists ==
    {l \in UNION {[1..m -> PairDescriptors] : m \in 1..MaxDescriptors} :
        \A j, k \in 1..Len(l) : j # k => l[j] # l[k]}

PairOutcomes == {"ok", "function not found", QueryRaises}

Queries == Range(Addresses) \X (1..PairEndpoints)

Tables == [Queries -> PairOutcomes]

Rerun ==
    /\ pc = "done"
    /\ run = 1
    /\ run' = 2
    /\ prevAccepted' = acceptedPairs
    /\ gateway' = nextGateway
    /\ nextGateway' = gateway
    /\ pc' = LoopHead(1)
    /\ abi_idx' = 1
    /\ addr_idx' = 1
    /\ function_names' = <<>>
    /\ random_functions' = <<>>
    /\ probe_idx' = 1
    /\ match_count' = 0
    /\ relationship_dict' = <<>>
    /\ files' = <<>>
    /\ relationship_file' = <<>>
    /\ acceptedPairs' = {}
    /\ lastAccepted' = <<>>
    /\ probedPairs' = {}
    /\ raised' = {}
    /\ lastPair' = NoPair
    /\ UNCHANGED <<abi_jsons, sc_addresses, textVars>>

InitPair ==
    /\ abi_jsons \in PairDescriptorLists
    /\ sc_addresses = Addresses
    /\ \E t \in Tables, q \in Queries, o \in PairOutcomes :
        /\ gateway = [mode |-> "table", table |-> t]
        /\ nextGateway = [mode |-> "table", table |-> [t EXCEPT ![q] = o]]
    /\ EngineStart
    /\ run = 1
    /\ prevAccepted = {}
    /\ NoText

NextPair ==
    \/ Next
    \/ Rerun

SpecPair == InitPair /\ [][NextPair]_vars

(***************************************************************************)
(* Claims about find_matching_contracts                                    *)
(***************************************************************************)

\* C1: for every pair whose first-endpoint probe returned a code other than
\* "function not found"/"contract not found" (of a descriptor that has a "name"),
\* the pair is recorded in the relationship map if and only if every probe of
\* the confirmation round returned a code outside those two.
C1_AcceptedIffRoundUnanimous ==
    (lastPair.closed /\ lastPair.first = "passed" /\ abi_jsons[lastPair.abi].hasName)
        => (lastPair.recorded <=> (lastPair.rejections = 0 /\ ~lastPair.failed))

\* C2: after a successful first probe of a descriptor with n endpoints the
\* confirmation round is chosen, and it is min(5, n-1) distinct endpoint names
\* taken from the endpoints after the first one; the completed round has
\* issued exactly that many probes.
C2_RoundIsMinFiveOfTheRest ==
    lastPair.first = "passed" =>
        /\ lastPair.sample # "raised"
        /\ pc \in {"confirm", "decide"} =>
            /\ Len(random_functions) = Min(NUMBER_OF_MATCHES, Len(function_names) - 1)
            /\ Range(random_functions) \subseteq Range(Slice(function_names, 1))
            /\ Cardinality(Range(random_functions)) = Len(random_functions)
        /\ pc = "decide" =>
            lastPair.probes = Min(NUMBER_OF_MATCHES, Len(function_names) - 1)

\* C3: in two runs over the same descriptors and addresses in which the gateway
\* gives the same answers to the queries of the pair (a, d), the pair is
\* accepted in both runs or in neither, whatever the answers (return codes or
\* exceptions) to the queries of other addresses.
C3_DecisionDependsOnOwnProbesOnly ==
    (run = 2 /\ pc = "done") =>
        \A i \in 1..Len(abi_jsons), a \in Range(sc_addresses) :
            (\A f \in 1..abi_jsons[i].n :
                gateway.table[<<a, f>>] = nextGateway.table[<<a, f>>])
            => (<<i, a>> \in prevAccepted <=> <<i, a>> \in acceptedPairs)

\* C4: an exception while parsing a descriptor or while probing for it stops
\* that descriptor only: every descriptor of the list is still processed (it
\* either raised itself or had its first endpoint probed against every
\* address), every match recorded stays in the relationship map with the path
\* of the descriptor last accepted for the address, and relationship.json is
\* written exactly once, after the last descriptor, with that map.
C4_ExceptionStopsOneDescriptorOnly ==
    /\ Len(relationship_file) = (IF pc = "done" THEN 1 ELSE 0)
    /\ \A pair \in acceptedPairs :
        /\ pair[2] \in DOMAIN relationship_dict
        /\ relationship_dict[pair[2]] = ExportPath(abi_jsons[lastAccepted[pair[2]]].name)
    /\ pc = "done" =>
        /\ relationship_file[1] = relationship_dict
        /\ \A i \in 1..Len(abi_jsons) :
            \/ i \in raised
            \/ \A a \in Range(sc_addresses) : <<i, a>> \in probedPairs

\* a run in which the first descriptor was accepted for the first address and
\* then raised, and the second descriptor was still probed against every address
C4_Witness ==
    /\ pc = "done"
    /\ Len(abi_jsons) = 2
    /\ 1 \in raised
    /\ <<1, sc_addresses[1]>> \in acceptedPairs
    /\ \A a \in Range(sc_addresses) : <<2, a>> \in probedPairs

\* C9: at the end of find_matching_contracts, the file at the path recorded
\* for an address holds the descriptor last accepted for that address.
C9_RecordedFileHoldsLastAccepted ==
    pc = "done" =>
        \A a \in DOMAIN relationship_dict :
            files[relationship_dict[a]] = abi_jsons[lastAccepted[a]]

(***************************************************************************)
(* Texts.  Offsets are Python's: the character at offset i of s is s[i+1]. *)
(***************************************************************************)
None == [ok |-> FALSE, content |-> <<>>]
Some(content) == [ok |-> TRUE, content |-> content]

RECURSIVE Flatten(_)
Flatten(tokens) ==
    IF tokens = <<>> THEN <<>> ELSE Head(tokens) \o Flatten(Tail(tokens))

TextsOf(tokenSet, maxTokens) ==
    {Flatten(t) : t \in UNION {[1..m -> tokenSet] : m \in 0..maxTokens}}

\* s[i:i+len(pat)] == pat
MatchAt(s, pat, i) ==
    /\ i >= 0
    /\ i + Len(pat) <= Len(s)
    /\ \A k \in 1..Len(pat) : s[i + k] = pat[k]

\* str.find(pat, start)
Find(s, pat, start) ==
    LET hits == {i \in start..(Len(s) - Len(pat)) : MatchAt(s, pat, i)}
    IN  IF hits = {} THEN -1 ELSE CHOOSE i \in hits : \A j \in hits : i <= j

\* str.rfind(pat, lo, hi)
RFind(s, pat, lo, hi) ==
    LET hits == {i \in lo..(Min(hi, Len(s)) - Len(pat)) : MatchAt(s, pat, i)}
    IN  IF hits = {} THEN -1 ELSE CHOOSE i \in hits : \A j \in hits : i >= j

\* str.replace(old, new), old not empty
RECURSIVE ReplaceFrom(_, _, _, _)
ReplaceFrom(s, old, new, i) ==
    IF i >= Len(s) THEN <<>>
    ELSE IF MatchAt(s, old, i) THEN new \o ReplaceFrom(s, old, new, i + Len(old))
    ELSE <<s[i + 1]>> \o ReplaceFrom(s, old, new, i + 1)

Replace(s, old, new) == ReplaceFrom(s, old, new, 0)

Contains(s, pat) == Find(s, pat, 0) # -1

(***************************************************************************)
(* find_buildinfo_and_nearest_opening_brace (main.py:104-135)              *)
(***************************************************************************)
BuildInfo == <<"b", "u", "i", "l", "d", "I", "n", "f", "o">>
QuotedBuildInfo == <<"\"">> \o BuildInfo \o <<"\"">>

RECURSIVE FindOccurrencesFrom(_, _, _)
FindOccurrencesFrom(js, index, occurrences) ==
    LET quoted == Find(js, QuotedBuildInfo, index)
        build_info_index == IF quoted = -1 THEN Find(js, BuildInfo, index) ELSE quoted
        open_brace_index == RFind(js, <<"{">>, 0, build_info_index)
    IN  IF build_info_index = -1 THEN occurrences
        ELSE FindOccurrencesFrom(js, build_info_index + 1,
                IF open_brace_index # -1
                THEN Append(occurrences, <<open_brace_index, build_info_index>>)
                ELSE occurrences)

find_buildinfo_and_nearest_opening_brace(js) == FindOccurrencesFrom(js, 0, <<>>)

(***************************************************************************)
(* extract_matching_braces_content (main.py:139-161)                       *)
(***************************************************************************)
RECURSIVE MatchBraces(_, _, _, _)
MatchBraces(js, start_index, i, open_brace_count) ==
    IF i >= Len(js) THEN None
    ELSE LET char == js[i + 1]
             count == IF char = "{" THEN open_brace_count + 1
                      ELSE IF char = "}" THEN open_brace_count - 1
                      ELSE open_brace_count
         IN  IF char = "}" /\ count = 0
             THEN Some(SubSeq(js, start_index + 1, i + 1))
             ELSE MatchBraces(js, start_index, i + 1, count)

extract_matching_braces_content(js, start_index) ==
    MatchBraces(js, start_index, start_index, 0)

(***************************************************************************)
(* repair_json (main.py:165-184)                                           *)
(***************************************************************************)
Letters ==
    {"a", "b", "c", "d", "e", "f", "g", "h", "i", "j", "k", "l", "m", "n", "o", "p",
     "q", "r", "s", "t", "u", "v", "w", "x", "y", "z",
     "A", "B", "C", "D", "E", "F", "G", "H", "I", "J", "K", "L", "M", "N", "O", "P",
     "Q", "R", "S", "T", "U", "V", "W", "X", "Y", "Z"}
Digits == {"0", "1", "2", "3", "4", "5", "6", "7", "8", "9"}

Alnums == Letters \cup Digits                     \* [0-9a-zA-Z]
WordChars == Alnums \cup {"_"}                    \* \w
IdentStarts == Letters \cup {"_"}                 \* [a-zA-Z_]
Spaces == {" ", "\t", "\n", "\r"}                 \* \s

\* the offset after the run of characters of `class` that starts at offset i
RunEnd(s, i, class) ==
    LET stops == {j \in i..Len(s) : j = Len(s) \/ s[j + 1] \notin class}
    IN  CHOOSE j \in stops : \A k \in stops : j <= k

\* a lookahead that also steps over a closing quote, (?=\s*"?\s*[:]): it takes
\* the word inside an already quoted key for a bare key
KeyFollows_ThroughQuote(s, i) ==
    LET j == RunEnd(s, i, Spaces)
        k == IF j < Len(s) /\ s[j + 1] = "\"" THEN RunEnd(s, j + 1, Spaces) ELSE j
    IN  k < Len(s) /\ s[k + 1] = ":"

\* the lookahead (?=\s*[:]) at offset i
KeyFollows(s, i) ==
    LET j == RunEnd(s, i, Spaces)
    IN  j < Len(s) /\ s[j + 1] = ":"

\* re.sub(r'(\b[a-zA-Z_]\w*\b)(?=\s*[:])', r'"\1"', s): a match is a whole run of
\* word characters that starts with a letter or "_" and is followed by the lookahead;
\* no match starts inside a run (no \b there)
RECURSIVE QuoteKeysFrom(_, _)
QuoteKeysFrom(s, i) ==
    IF i >= Len(s) THEN <<>>
    ELSE IF s[i + 1] \in WordChars
    THEN LET e == RunEnd(s, i, WordChars)
             word == SubSeq(s, i + 1, e)
         IN  (IF s[i + 1] \in IdentStarts /\ KeyFollows(s, e)
              THEN <<"\"">> \o word \o <<"\"">>
              ELSE word) \o QuoteKeysFrom(s, e)
    ELSE <<s[i + 1]>> \o QuoteKeysFrom(s, i + 1)

QuoteKeys(s) == QuoteKeysFrom(s, 0)

True == <<"t", "r", "u", "e">>
False == <<"f", "a", "l", "s", "e">>

repair_json(s) ==
    LET s1 == QuoteKeys(s)
        s2 == Replace(s1, <<"'">>, <<"\"">>)
        s3 == Replace(s2, <<"\\">>, <<"\\", "\\">>)
        s4 == Replace(s3, <<"!", "0">>, True)
    IN  Replace(s4, <<"!", "1">>, False)

(***************************************************************************)
(* process_js_url (main.py:397-431), up to its call of                     *)
(* find_matching_contracts.  repair_json(None) raises TypeError (re.sub on *)
(* None), which nothing catches: the program ends.                         *)
(***************************************************************************)
FrameText == UNCHANGED <<engineVars, runVars, js_code>>

\* main.py:412
ScanOccurrences ==
    /\ text_pc = "scan"
    /\ buildinfo_occurrences' = find_buildinfo_and_nearest_opening_brace(js_code)
    /\ occ_idx' = 1
    /\ text_pc' = "extract"
    /\ UNCHANGED <<abi_list, result>>
    /\ FrameText

\* main.py:416-421: one turn of the loop over the occurrences
ExtractAndRepair ==
    /\ text_pc = "extract"
    /\ occ_idx <= Len(buildinfo_occurrences)
    /\ LET buildinfo_content_nested ==
               extract_matching_braces_content(js_code, buildinfo_occurrences[occ_idx][1])
       IN  IF ~buildinfo_content_nested.ok
           THEN /\ text_pc' = "TypeError"
                /\ UNCHANGED <<abi_list, occ_idx>>
           ELSE /\ abi_list' = Append(abi_list, repair_json(buildinfo_content_nested.content))
                /\ occ_idx' = occ_idx + 1
                /\ text_pc' = "extract"
    /\ UNCHANGED <<buildinfo_occurrences, result>>
    /\ FrameText

\* main.py:422-430: deduplicate and hand over to the matching
HandOver ==
    /\ text_pc = "extract"
    /\ occ_idx > Len(buildinfo_occurrences)
    /\ result' = Range(abi_list)
    /\ text_pc' = "matching"
    /\ UNCHANGED <<buildinfo_occurrences, occ_idx, abi_list>>
    /\ FrameText

ScanTokens == {<<"{">>, <<"}">>, <<"\"">>, BuildInfo}

\* the engine, idle
EngineIdle ==
    /\ abi_jsons = <<>>
    /\ sc_addresses = <<>>
    /\ gateway = LiveGateway
    /\ pc = "idle"
    /\ abi_idx = 1
    /\ addr_idx = 1
    /\ function_names = <<>>
    /\ random_functions = <<>>
    /\ probe_idx = 1
    /\ match_count = 0
    /\ relationship_dict = <<>>
    /\ files = <<>>
    /\ relationship_file = <<>>
    /\ acceptedPairs = {}
    /\ lastAccepted = <<>>
    /\ probedPairs = {}
    /\ raised = {}
    /\ lastPair = NoPair

TextStart(texts, at) ==
    /\ js_code \in texts
    /\ text_pc = at
    /\ buildinfo_occurrences = <<>>
    /\ occ_idx = 1
    /\ abi_list = <<>>
    /\ result = <<>>
    /\ EngineIdle
    /\ OneRun

InitScan == TextStart(TextsOf(ScanTokens, MaxTokens), "scan")

NextScan ==
    \/ ScanOccurrences
    \/ ExtractAndRepair
    \/ HandOver

SpecScan == InitScan /\ [][NextScan]_vars

(***************************************************************************)
(* Claims about the brace scanner                                          *)
(***************************************************************************)
\* the offsets at which an unquoted marker starts, in increasing order
MarkerStarts(js) == SeqOfSet({u \in 0..Len(js) : MatchAt(js, BuildInfo, u)})

\* the offset of the marker occurrence around the unquoted marker at u: that of
\* its opening quote when it is quoted
MarkerOffset(js, u) == IF MatchAt(js, QuotedBuildInfo, u - 1) THEN u - 1 ELSE u

ExpectedOccurrences(js) ==
    [k \in 1..Len(MarkerStarts(js)) |->
        LET marker == MarkerOffset(js, MarkerStarts(js)[k])
        IN  <<RFind(js, <<"{">>, 0, marker), marker>>]

EveryMarkerHasBrace(js) ==
    \A k \in 1..Len(ExpectedOccurrences(js)) : ExpectedOccurrences(js)[k][1] # -1

\* C5: an occurrence whose braces never balance produces no blob and is no
\* error: process_js_url goes on and hands over the repaired blobs of the
\* occurrences that do balance.
C5_UnbalancedOccurrenceIsDropped ==
    /\ text_pc # "TypeError"
    /\ text_pc = "matching" =>
        result = {repair_json(extract_matching_braces_content(js_code, o[1]).content) :
                    o \in {p \in Range(buildinfo_occurrences) :
                            extract_matching_braces_content(js_code, p[1]).ok}}

\* C6: when every marker occurrence (quoted or not) has a "{" somewhere before
\* it, the scan returns exactly one pair per marker occurrence, in text order:
\* the offset of the nearest "{" before the marker and the marker's offset.
C6_OnePairPerMarkerOccurrence ==
    (text_pc # "scan" /\ EveryMarkerHasBrace(js_code))
        => buildinfo_occurrences = ExpectedOccurrences(js_code)

(***************************************************************************)
(* json.loads (main.py:348, 350), for the texts the model hands to it:     *)
(* one object whose values are strings, numbers or true/false/null.        *)
(* The result is the dict: key -> value of the last member with that key.  *)
(***************************************************************************)
NoParse == [ok |-> FALSE, next |-> 0, val |-> <<>>]
Parsed(next, val) == [ok |-> TRUE, next |-> next, val |-> val]

Null == <<"n", "u", "l", "l">>

\* the characters of a string, from offset j inside it up to its closing quote
RECURSIVE ParseStringFrom(_, _, _)
ParseStringFrom(s, j, acc) ==
    IF j >= Len(s) THEN NoParse
    ELSE LET c == s[j + 1]
         IN  IF c = "\"" THEN Parsed(j + 1, [type |-> "string", chars |-> acc])
             ELSE IF c = "\\"
             THEN IF j + 1 < Len(s) /\ s[j + 2] \in {"\"", "\\", "/"}
                  THEN ParseStringFrom(s, j + 2, Append(acc, s[j + 2]))
                  ELSE IF j + 1 < Len(s) /\ s[j + 2] = "n"
                  THEN ParseStringFrom(s, j + 2, Append(acc, "\n"))
                  ELSE NoParse
             ELSE IF c \in {"\n", "\t", "\r"} THEN NoParse
             ELSE ParseStringFrom(s, j + 1, Append(acc, c))

ParseValue(s, j) ==
    IF j >= Len(s) THEN NoParse
    ELSE IF s[j + 1] = "\"" THEN ParseStringFrom(s, j + 1, <<>>)
    ELSE IF MatchAt(s, True, j) THEN Parsed(j + 4, [type |-> "literal", chars |-> True])
    ELSE IF MatchAt(s, False, j) THEN Parsed(j + 5, [type |-> "literal", chars |-> False])
    ELSE IF MatchAt(s, Null, j) THEN Parsed(j + 4, [type |-> "literal", chars |-> Null])
    ELSE IF s[j + 1] \in Digits \ {"0"}
    THEN Parsed(RunEnd(s, j, Digits),
                [type |-> "number", chars |-> SubSeq(s, j + 1, RunEnd(s, j, Digits))])
    ELSE NoParse

\* the members of an object from offset j (a key is expected) to its "}"
RECURSIVE ParseMembers(_, _, _)
ParseMembers(s, j, acc) ==
    IF j >= Len(s) \/ s[j + 1] # "\"" THEN NoParse
    ELSE LET key == ParseStringFrom(s, j + 1, <<>>)
             colon == RunEnd(s, key.next, Spaces)
         IN  IF ~key.ok \/ colon >= Len(s) \/ s[colon + 1] # ":" THEN NoParse
             ELSE LET value == ParseValue(s, RunEnd(s, colon + 1, Spaces))
                      after == RunEnd(s, value.next, Spaces)
                      members == Append(acc, <<key.val.chars, value.val>>)
                  IN  IF ~value.ok \/ after >= Len(s) THEN NoParse
                      ELSE IF s[after + 1] = "}" THEN Parsed(after + 1, members)
                      ELSE IF s[after + 1] = ","
                      THEN ParseMembers(s, RunEnd(s, after + 1, Spaces), members)
                      ELSE NoParse

DictOf(members) ==
    [k \in {members[j][1] : j \in 1..Len(members)} |->
        LET last == CHOOSE j \in 1..Len(members) :
                        /\ members[j][1] = k
                        /\ \A i \in 1..Len(members) : members[i][1] = k => i <= j
        IN  members[last][2]]

json_loads(s) ==
    LET open == RunEnd(s, 0, Spaces)
        first == RunEnd(s, open + 1, Spaces)
        object == IF open >= Len(s) \/ s[open + 1] # "{" THEN NoParse
                  ELSE IF first < Len(s) /\ s[first + 1] = "}" THEN Parsed(first + 1, <<>>)
                  ELSE ParseMembers(s, first, <<>>)
    IN  IF object.ok /\ RunEnd(s, object.next, Spaces) = Len(s)
        THEN [ok |-> TRUE, val |-> DictOf(object.val)]
        ELSE [ok |-> FALSE, val |-> <<>>]

(***************************************************************************)
(* repair_json applied to strict JSON texts                                *)
(***************************************************************************)
StringAlphabet == {"a", ":", "'", " "}

Strings == UNION {[1..m -> StringAlphabet] : m \in 0..MaxStrLen}

Quoted(chars) == <<"\"">> \o chars \o <<"\"">>

\* {"key":value} and {"key" : value}; a value is a string, true or a number
JsonTexts ==
    {<<"{">> \o Quoted(k) \o sep \o v \o <<"}">> :
        k \in Strings, sep \in {<<":">>, <<" ", ":", " ">>},
        v \in {Quoted(w) : w \in Strings} \cup {True, <<"1">>}}

RepairJson ==
    /\ text_pc = "call"
    /\ result' = repair_json(js_code)
    /\ text_pc' = "returned"
    /\ UNCHANGED <<buildinfo_occurrences, occ_idx, abi_list>>
    /\ FrameText

InitRepair == TextStart(JsonTexts, "call")

SpecRepair == InitRepair /\ [][RepairJson]_vars

\* an identifier (a run of word characters that starts with a letter or "_")
\* followed, after optional whitespace, by a colon
IdentifierBeforeColon(s) ==
    \E b \in 0..Len(s), e \in 0..Len(s), c \in 0..(Len(s) - 1) :
        /\ b < e /\ e <= c
        /\ s[c + 1] = ":"
        /\ \A k \in b..(e - 1) : s[k + 1] \in WordChars
        /\ \A k \in e..(c - 1) : s[k + 1] \in Spaces
        /\ b = 0 \/ s[b] \notin WordChars
        /\ s[b + 1] \in IdentStarts

Erd1 == <<"e", "r", "d", "1">>
AddressPrefix == Erd1 \o [j \in 1..9 |-> "q"]
Placeholder == Erd1 \o [j \in 1..15 |-> "q"] \o <<"p">> \o [j \in 1..29 |-> "q"]

\* the offset after the match of \berd1qqqqqqqqq[0-9a-zA-Z]+\b that starts at offset
\* i, or -1: a match starts at a word boundary, takes the whole run of alphanumerics
\* after the prefix (one at least) and must end at a word boundary
AddressEnd(s, i) ==
    LET b == i + Len(AddressPrefix)
        e == RunEnd(s, Min(b, Len(s)), Alnums)
    IN  IF /\ i = 0 \/ s[i] \notin WordChars
           /\ MatchAt(s, AddressPrefix, i)
           /\ e > b
           /\ e = Len(s) \/ s[e + 1] \notin WordChars
        THEN e ELSE -1

\* re.findall (main.py:222-223): the matches in text order.  A match lies inside one
\* run of word characters and starts where the run starts, so no two overlap and the
\* left-to-right search finds every one of them.
FindAddresses(s) ==
    LET starts == SeqOfSet({i \in 0..(Len(s) - 1) : AddressEnd(s, i) # -1})
    IN  [k \in 1..Len(starts) |-> SubSeq(s, starts[k] + 1, AddressEnd(s, starts[k]))]

\* a filter that drops only the token equal to the placeholder
IsExcluded_OnlyEqual(address) == address = Placeholder

\* main.py:225: "erd1qqqqqqqqqqqqqqqpqqqqqqqqqqqqqqqqqqqqqqqqqqqqq" in address
IsExcluded(address) == Contains(address, Placeholder)

Kept(address) == ~IsExcluded(address)

extract_addresses(js) == SelectSeq(FindAddresses(js), Kept)

AddressTokens == {Placeholder, AddressPrefix \o <<"a">>, <<"x">>, <<" ">>, <<"_">>}

ExtractAddresses ==
    /\ text_pc = "call"
    /\ result' = extract_addresses(js_code)
    /\ text_pc' = "returned"
    /\ UNCHANGED <<buildinfo_occurrences, occ_idx, abi_list>>
    /\ FrameText

InitAddresses == TextStart(TextsOf(AddressTokens, MaxAddrTokens), "call")

SpecAddresses == InitAddresses /\ [][ExtractAddresses]_vars

\* the words of a text (maximal runs of word characters), in text order
Words(s) ==
    LET starts == SeqOfSet({i \in 0..(Len(s) - 1) :
                        s[i + 1] \in WordChars /\ (i = 0 \/ s[i] \notin WordChars)})
    IN  [k \in 1..Len(starts) |-> SubSeq(s, starts[k] + 1, RunEnd(s, starts[k], WordChars))]

\* a word that is the prefix followed by one or more alphanumerics
AddressShaped(w) ==
    /\ Len(w) > Len(AddressPrefix)
    /\ SubSeq(w, 1, Len(AddressPrefix)) = AddressPrefix
    /\ \A k \in 1..Len(w) : w[k] \in Alnums

NotThePlaceholder(w) == AddressShaped(w) /\ w # Placeholder
WithoutThePlaceholder(w) == AddressShaped(w) /\ ~Contains(w, Placeholder)

\* C8 as claimed: the result is the address-shaped tokens of the text, in
\* order and once per occurrence, except those equal to the placeholder.
C8_DropsOnlyThePlaceholder ==
    text_pc = "returned" => result = SelectSeq(Words(js_code), NotThePlaceholder)

\* C8 as amended: the result is the address-shaped tokens of the text, in order
\* and once per occurrence, except those that contain the placeholder: the
\* placeholder is never returned, and a token that does not contain it is
\* never dropped.
C8_DropsTokensContainingThePlaceholder ==
    text_pc = "returned" =>
        /\ result = SelectSeq(Words(js_code), WithoutThePlaceholder)
        /\ Placeholder \notin Range(result)

\* a text with a token that contains the placeholder without being equal to it,
\* which is dropped, and an address, which is returned
C8_Witness ==
    /\ text_pc = "returned"
    /\ \E w \in Range(Words(js_code)) :
        AddressShaped(w) /\ Contains(w, Placeholder) /\ w # Placeholder
    /\ result = <<AddressPrefix \o <<"a">> >>

(***************************************************************************)
(* repair_broken_json (main.py:293-323)                                    *)
(***************************************************************************)
DocsKey == <<"\"", "d", "o", "c", "s", "\"", ":">>

\* main.py:305-310
repair_docs_as_single_string(docs_string) ==
    LET content_without_brackets == SubSeq(docs_string, 2, Len(docs_string) - 1)
        escaped_quotes_content == Replace(content_without_brackets, <<"\"">>, <<"\\", "\"">>)
        repaired_content == Replace(escaped_quotes_content, <<"\\", "\\", "n">>, <<"\\", "n">>)
    IN  <<"\"">> \o repaired_content \o <<"\"">>

\* the "]" that ends the match of "docs":(\[.*?\]) starting at offset i, or -1
\* ("." matches no line break)
DocsClose(s, i) ==
    LET close == Find(s, <<"]">>, i + Len(DocsKey) + 1)
    IN  IF /\ MatchAt(s, DocsKey \o <<"[">>, i)
           /\ close # -1
           /\ \A k \in (i + Len(DocsKey) + 1)..(close - 1) : s[k + 1] # "\n"
        THEN close ELSE -1

\* re.findall(r'"docs":(\[.*?\])', broken_json), main.py:313
RECURSIVE FindDocsFrom(_, _)
FindDocsFrom(s, i) ==
    IF i >= Len(s) THEN <<>>
    ELSE IF DocsClose(s, i) # -1
    THEN <<SubSeq(s, i + Len(DocsKey) + 1, DocsClose(s, i) + 1)>>
            \o FindDocsFrom(s, DocsClose(s, i) + 1)
    ELSE FindDocsFrom(s, i + 1)

\* main.py:319-321
RECURSIVE ApplyRepairs(_, _)
ApplyRepairs(repaired_content, docs_fields) ==
    IF docs_fields = <<>> THEN repaired_content
    ELSE ApplyRepairs(
            Replace(repaired_content, Head(docs_fields),
                    <<"[">> \o repair_docs_as_single_string(Head(docs_fields)) \o <<"]">>),
            Tail(docs_fields))

repair_broken_json(broken_json) == ApplyRepairs(broken_json, FindDocsFrom(broken_json, 0))

DocsTokens ==
    {DocsKey \o <<"[", "]">>,
     DocsKey \o <<"[", "a", "]">>,
     DocsKey \o <<"[", "\"", "a", "\"", "]">>,
     <<"\"", "i", "n", "p", "u", "t", "s", "\"", ":", "[", "]">>,
     <<"[">>, <<"]">>, <<"a">>, <<"\"">>}

RepairBrokenJson ==
    /\ text_pc = "call"
    /\ result' = repair_broken_json(js_code)
    /\ text_pc' = "returned"
    /\ UNCHANGED <<buildinfo_occurrences, occ_idx, abi_list>>
    /\ FrameText

InitDocs == TextStart(TextsOf(DocsTokens, MaxDocsTokens), "call")

SpecDocs == InitDocs /\ [][RepairBrokenJson]_vars

\* the text with each value that directly follows a "docs": key rewritten once,
\* and every other character kept
RECURSIVE RewriteDocsOnly(_, _)
RewriteDocsOnly(s, i) ==
    IF i >= Len(s) THEN <<>>
    ELSE IF DocsClose(s, i) # -1
    THEN DocsKey \o <<"[">>
            \o repair_docs_as_single_string(
                    SubSeq(s, i + Len(DocsKey) + 1, DocsClose(s, i) + 1))
            \o <<"]">> \o RewriteDocsOnly(s, DocsClose(s, i) + 1)
    ELSE <<s[i + 1]>> \o RewriteDocsOnly(s, i + 1)

\* C10: repair_broken_json changes only the bracket-delimited values that
\* directly follow a "docs": key, each exactly once; every character outside
\* those spans is unchanged.
C10_OnlyDocsValuesAreRewritten ==
    text_pc = "returned" => result = RewriteDocsOnly(js_code, 0)

====
